---- MODULE Spec2Model ----
(***************************************************************************)
(* A model of mcabber_merge_history.c: the record parser (read_entry), the *)
(* log loader (read_hist, bubble_sort), the merge engine (merge_entries),  *)
(* the file-level merge (merge_files), copy and the directory walk         *)
(* (merge_dirs).                                                           *)
(*                                                                         *)
(* Representation.  A history file is a sequence of physical lines.  The   *)
(* first line of a record is a header line "TT <timestamp> NNN <text>\n";  *)
(* the NNN lines that follow it are plain lines.  Timestamps are fixed     *)
(* width strings compared with strcmp; they are modelled by their rank (an *)
(* integer), so that strcmp's sign is the sign of the difference.  The     *)
(* bodies of lines are opaque strings.  Files are named by <<dir, name>>.  *)
(* The model covers well-formed files and files cut at a line boundary     *)
(* (the last record lacking continuation lines); allocation failures and   *)
(* unwritable destinations are not modelled.                               *)
(***************************************************************************)
EXTENDS Integers, Sequences, FiniteSets, TLC

VARIABLES
    fs,        \* the filesystem: path -> file state
    top,       \* the function the run entered: which specification runs
    pc,        \* the position in the code
    args,      \* merge_files: file1, file2, fileO
    fh,        \* merge_files: file_fh (the stream's path, mode, read cursor)
    which,     \* which read_hist call of merge_files is running (1 or 2)
    entries,   \* read_hist: the array entries[0 .. n_entries-1]
    hist1,     \* merge_files: hist1 / merge_entries: entries_a
    hist2,     \* merge_files: hist2 / merge_entries: entries_b
    i_a,       \* merge_entries: i_a
    i_b,       \* merge_entries: i_b
    ret,       \* merge_files: the value returned (-1: not returned yet)
    dirs,      \* merge_dirs: dir1, dir2, dirO
    todo,      \* merge_dirs: the entries readdir has yet to return
    status,    \* merge_dirs: status
    fs0,       \* history: the filesystem at the start
    h_parsed,  \* history: entries as parsed, before bubble_sort
    h_missing, \* history: read_entry warned "Missing lines!" in this load
    h_io,      \* history: the reads, truncations and writes, in order
    h_out,     \* history: merge_entries' writes, as <<source, index>>
    h_drop,    \* history: the indices of entries_b skipped as duplicates
    h_calls    \* history: merge_dirs' calls of merge_files and copy

vars == <<fs, top, pc, args, fh, which, entries, hist1, hist2, i_a, i_b, ret,
          dirs, todo, status, fs0, h_parsed, h_missing, h_io, h_out, h_drop,
          h_calls>>

(***************************************************************************)
(* Bounds                                                                  *)
(***************************************************************************)
\* merge_entries alone: the longest entries_a and entries_b drawn
MaxMergeLen == 2
\* read_hist alone: the most records of a file drawn
MaxLoadLen == 4
\* merge_files: the most records of each of its two input files
MaxFileLen == 2

(***************************************************************************)
(* struct hist_entry and the text of a record                              *)
(***************************************************************************)
\* atoi on the three-digit count of following lines
Atoi(s) == CASE s = "000" -> 0 [] s = "001" -> 1 [] s = "002" -> 2

\* strcmp on timestamps: negative, zero or positive
Strcmp(x, y) == IF x < y THEN -1 ELSE IF x = y THEN 0 ELSE 1

Entry(ty, ts, fl, ls) ==
    [type |-> ty, timestamp |-> ts, follow_lines |-> fl, lines |-> ls]

\* a header line of a file and a plain (continuation) line
HeaderLine(ty, ts, fl, text) ==
    [hdr |-> TRUE, type |-> ty, timestamp |-> ts, follow_lines |-> fl, text |-> text]
PlainLine(text) ==
    [hdr |-> FALSE, type |-> "", timestamp |-> 0, follow_lines |-> "", text |-> text]

\* The entries the inputs are drawn from: at timestamp 1 entries that differ
\* in one field at a time (type, first line, line count, second line), and
\* two entries at timestamp 2.
EntryUniverse ==
    { Entry("MR", 1, "000", <<"x">>), Entry("MS", 1, "000", <<"x">>),
      Entry("MR", 1, "000", <<"y">>), Entry("MR", 1, "001", <<"x", "y">>),
      Entry("MR", 1, "001", <<"x", "x">>),
      Entry("MR", 2, "000", <<"x">>), Entry("MR", 2, "000", <<"y">>) }

\* the entries the files of merge_files and merge_dirs are written from
FileUniverse ==
    { Entry("MR", 1, "000", <<"x">>), Entry("MR", 1, "000", <<"y">>),
      Entry("MR", 1, "001", <<"x", "y">>), Entry("MR", 2, "000", <<"x">>) }

SeqsUpTo(S, n) == UNION { [1..k -> S] : k \in 0..n }

IsSorted(es) ==
    \A k \in 1..(Len(es) - 1) : es[k].timestamp <= es[k+1].timestamp

RECURSIVE Flatten(_)
Flatten(ss) == IF ss = <<>> THEN <<>> ELSE Head(ss) \o Flatten(Tail(ss))

(***************************************************************************)
(* write_entry: the header fields, then every line up to the NULL          *)
(***************************************************************************)
write_entry(entry) ==
    <<HeaderLine(entry.type, entry.timestamp, entry.follow_lines, entry.lines[1])>>
    \o [k \in 1..(Len(entry.lines) - 1) |-> PlainLine(entry.lines[k+1])]

\* a file holding the entries es, as write_entry writes each
FileOf(es) == Flatten([k \in 1..Len(es) |-> write_entry(es[k])])

\* the same file cut before its last line, when that leaves the last record
\* short of the lines its header declares
CutFiles(es) ==
    IF es # <<>> /\ Atoi(es[Len(es)].follow_lines) > 0
    THEN { SubSeq(FileOf(es), 1, Len(FileOf(es)) - 1) }
    ELSE {}

(***************************************************************************)
(* read_entry: one record from the stream at pos, or NULL.  NULL is        *)
(* returned both at the end of the stream (the type read is empty) and     *)
(* when getline fails before follow_lines + 1 lines were read.             *)
(***************************************************************************)
read_entry(stream, pos) ==
    IF pos > Len(stream)
    THEN [null |-> TRUE, missing |-> FALSE, pos |-> pos]
    ELSE LET h == stream[pos]
             follow_lines == Atoi(h.follow_lines)
         IN  IF pos + follow_lines > Len(stream)
             THEN [null |-> TRUE, missing |-> TRUE, pos |-> Len(stream) + 1]
             ELSE [null |-> FALSE, missing |-> FALSE,
                   pos |-> pos + follow_lines + 1,
                   entry |-> Entry(h.type, h.timestamp, h.follow_lines,
                                   <<h.text>> \o
                                   [k \in 1..follow_lines |-> stream[pos + k].text])]

(***************************************************************************)
(* bubble_sort with cmp_hist_entry_timestamp.  C's array[i] is array[i+1]  *)
(* here.                                                                   *)
(***************************************************************************)
\* the comparison with >= for >: equal timestamps count as out of order
cmp_GreaterOrEqual(a, b) == IF a.timestamp >= b.timestamp THEN 1 ELSE -1

cmp_hist_entry_timestamp(a, b) == Strcmp(a.timestamp, b.timestamp)

Swap(array, j, k) == [array EXCEPT ![j] = array[k], ![k] = array[j]]

RECURSIVE BubbleFor(_, _, _, _)
BubbleFor(array, i, n, new_n) ==
    IF ~(i < n - 1)
    THEN [array |-> array, new_n |-> new_n]
    ELSE IF cmp_hist_entry_timestamp(array[i+1], array[i+2]) > 0
         THEN BubbleFor(Swap(array, i+1, i+2), i + 1, n, i + 1)
         ELSE BubbleFor(array, i + 1, n, new_n)

RECURSIVE BubbleDo(_, _)
BubbleDo(array, n) ==
    LET r == BubbleFor(array, 0, n, 1)
    IN  IF r.new_n > 1 THEN BubbleDo(r.array, r.new_n) ELSE r.array

bubble_sort(array, size) == BubbleDo(array, size)

(***************************************************************************)
(* eq_hist_entry: type, timestamp and follow_lines, then line by line      *)
(* until both arrays reach their NULL.                                     *)
(***************************************************************************)
RECURSIVE EqLinesFrom(_, _, _)
EqLinesFrom(a, b, k) ==
    IF ~(k <= Len(a.lines) \/ k <= Len(b.lines))
    THEN TRUE
    ELSE IF a.lines[k] # b.lines[k] THEN FALSE ELSE EqLinesFrom(a, b, k + 1)

\* eq_hist_entry answering as strcmp does: non-zero when the entries differ
eq_StrcmpSense(a, b) ==
    \/ a.type # b.type \/ a.timestamp # b.timestamp
    \/ a.follow_lines # b.follow_lines
    \/ ~EqLinesFrom(a, b, 1)

\* eq_hist_entry without the comparison of the types
eq_IgnoringType(a, b) ==
    IF a.timestamp # b.timestamp \/ a.follow_lines # b.follow_lines
    THEN FALSE
    ELSE EqLinesFrom(a, b, 1)

eq_hist_entry(a, b) ==
    IF a.type # b.type \/ a.timestamp # b.timestamp
       \/ a.follow_lines # b.follow_lines
    THEN FALSE
    ELSE EqLinesFrom(a, b, 1)

(***************************************************************************)
(* The filesystem                                                          *)
(***************************************************************************)
Dirs == {"A", "B", "O"}
Names == {"a.log", "shared.log", "b.log"}
Paths == Dirs \X Names

NoFile == [kind |-> "none", readable |-> FALSE, lines |-> <<>>]
File(ls) == [kind |-> "file", readable |-> TRUE, lines |-> ls]
Unreadable(ls) == [kind |-> "file", readable |-> FALSE, lines |-> ls]
\* a directory entry whose target does not exist (a dangling symbolic link)
Dangling == [kind |-> "dangling", readable |-> FALSE, lines |-> <<>>]

\* access(path, F_OK) != -1, and stat(path) != -1
Exists(f, path) == f[path].kind = "file"
\* fopen(path, "r") and freopen(path, "r", ...)
CanOpenRead(f, path) == f[path].kind = "file" /\ f[path].readable
\* fopen(path, "w") and freopen(path, "w", ...): created or truncated
OpenWrite(f, path) ==
    [f EXCEPT ![path] = [kind |-> "file", readable |-> TRUE, lines |-> <<>>]]

Closed == [path |-> <<"", "">>, mode |-> "closed", pos |-> 0]
NoArgs == [file1 |-> <<"", "">>, file2 |-> <<"", "">>, fileO |-> <<"", "">>]
NoDirs == [dir1 |-> "", dir2 |-> "", dirO |-> ""]

IoEvent(op, path) == [op |-> op, path |-> path]

\* the initial values of the history variables and of the locals not in use
Idle ==
    /\ args = NoArgs /\ which = 0 /\ entries = <<>>
    /\ hist1 = <<>> /\ hist2 = <<>> /\ i_a = 0 /\ i_b = 0 /\ ret = -1
    /\ dirs = NoDirs /\ todo = {} /\ status = 1
    /\ h_parsed = <<>> /\ h_missing = {} /\ h_io = <<>> /\ h_out = <<>>
    /\ h_drop = {} /\ h_calls = {}

(***************************************************************************)
(* read_hist: the loop over read_entry, then bubble_sort.  entries is NULL *)
(* until the first insert, so read_hist returns NULL exactly when it       *)
(* inserted nothing.                                                       *)
(***************************************************************************)
insert_hist_entry(es, entry) == Append(es, entry)

ReturnsNULL(es) == Len(es) = 0

RH_ReadEntry ==
    /\ pc = "rh_loop"
    /\ LET r == read_entry(fs[fh.path].lines, fh.pos)
       IN  /\ ~r.null
           /\ entries' = insert_hist_entry(entries, r.entry)
           /\ fh' = [fh EXCEPT !.pos = r.pos]
    /\ h_io' = Append(h_io, IoEvent("read", fh.path))
    /\ UNCHANGED <<fs, top, pc, args, which, hist1, hist2, i_a, i_b, ret, dirs,
                   todo, status, fs0, h_parsed, h_missing, h_out, h_drop, h_calls>>

RH_Return ==
    /\ pc = "rh_loop"
    /\ LET r == read_entry(fs[fh.path].lines, fh.pos)
       IN  /\ r.null
           /\ fh' = [fh EXCEPT !.pos = r.pos]
           /\ h_missing' = IF r.missing THEN h_missing \cup {fh.path} ELSE h_missing
    /\ entries' = bubble_sort(entries, Len(entries))
    /\ h_parsed' = entries
    /\ h_io' = Append(h_io, IoEvent("read", fh.path))
    /\ pc' = "rh_ret"
    /\ UNCHANGED <<fs, top, args, which, hist1, hist2, i_a, i_b, ret, dirs, todo,
                   status, fs0, h_out, h_drop, h_calls>>

(***************************************************************************)
(* merge_entries                                                           *)
(***************************************************************************)
\* line 288 with < for <=
WritesA_Strict(ts_cmp) == ts_cmp < 0

\* line 288: the entry of entries_a is written when ts_cmp <= 0
WritesA(ts_cmp) == ts_cmp <= 0

\* write_entry(entry, out_stream) on the stream file_fh
WriteTo(f, path, entry) ==
    [f EXCEPT ![path].lines = @ \o write_entry(entry)]

ME_Loop ==
    /\ pc = "me_loop"
    /\ i_a < Len(hist1) /\ i_b < Len(hist2)
    /\ LET a == hist1[i_a + 1]
           b == hist2[i_b + 1]
           ts_cmp == Strcmp(a.timestamp, b.timestamp)
           skip == ts_cmp = 0 /\ eq_hist_entry(a, b)
       IN  IF WritesA(ts_cmp)
           THEN /\ i_b' = IF skip THEN i_b + 1 ELSE i_b
                /\ h_drop' = IF skip THEN h_drop \cup {i_b + 1} ELSE h_drop
                /\ i_a' = i_a + 1
                /\ fs' = WriteTo(fs, fh.path, a)
                /\ h_out' = Append(h_out, <<"a", i_a + 1>>)
           ELSE /\ i_b' = i_b + 1
                /\ fs' = WriteTo(fs, fh.path, b)
                /\ h_out' = Append(h_out, <<"b", i_b + 1>>)
                /\ UNCHANGED <<i_a, h_drop>>
    /\ h_io' = Append(h_io, IoEvent("write", fh.path))
    /\ UNCHANGED <<top, pc, args, fh, which, entries, hist1, hist2, ret, dirs,
                   todo, status, fs0, h_parsed, h_missing, h_calls>>

ME_RestA ==
    /\ pc = "me_loop"
    /\ i_a < Len(hist1) /\ ~(i_b < Len(hist2))
    /\ i_a' = i_a + 1
    /\ fs' = WriteTo(fs, fh.path, hist1[i_a + 1])
    /\ h_out' = Append(h_out, <<"a", i_a + 1>>)
    /\ h_io' = Append(h_io, IoEvent("write", fh.path))
    /\ UNCHANGED <<top, pc, args, fh, which, entries, hist1, hist2, i_b, ret, dirs,
                   todo, status, fs0, h_parsed, h_missing, h_drop, h_calls>>

ME_RestB ==
    /\ pc = "me_loop"
    /\ ~(i_a < Len(hist1)) /\ i_b < Len(hist2)
    /\ i_b' = i_b + 1
    /\ fs' = WriteTo(fs, fh.path, hist2[i_b + 1])
    /\ h_out' = Append(h_out, <<"b", i_b + 1>>)
    /\ h_io' = Append(h_io, IoEvent("write", fh.path))
    /\ UNCHANGED <<top, pc, args, fh, which, entries, hist1, hist2, i_a, ret, dirs,
                   todo, status, fs0, h_parsed, h_missing, h_drop, h_calls>>

ME_Return ==
    /\ pc = "me_loop"
    /\ ~(i_a < Len(hist1)) /\ ~(i_b < Len(hist2))
    /\ pc' = "me_ret"
    /\ UNCHANGED <<fs, top, args, fh, which, entries, hist1, hist2, i_a, i_b, ret,
                   dirs, todo, status, fs0, h_parsed, h_missing, h_io, h_out,
                   h_drop, h_calls>>

(***************************************************************************)
(* merge_files                                                             *)
(***************************************************************************)
\* MF_Open1 with the output opened for writing before anything is read
MF_Open1_OutputFirst ==
    /\ pc = "mf_open1"
    /\ fs' = OpenWrite(fs, args.fileO)
    /\ h_io' = Append(h_io, IoEvent("trunc", args.fileO))
    /\ IF ~CanOpenRead(fs', args.file1)
       THEN /\ ret' = 0
            /\ pc' = "mf_ret"
            /\ UNCHANGED <<fh, which, entries>>
       ELSE /\ fh' = [path |-> args.file1, mode |-> "r", pos |-> 1]
            /\ which' = 1
            /\ entries' = <<>>
            /\ pc' = "rh_loop"
            /\ UNCHANGED ret
    /\ UNCHANGED <<top, args, hist1, hist2, i_a, i_b, dirs, todo, status, fs0,
                   h_parsed, h_missing, h_out, h_drop, h_calls>>

\* lines 323-328: fopen(file1, "r"); read_hist starts with no entries
MF_Open1 ==
    /\ pc = "mf_open1"
    /\ IF ~CanOpenRead(fs, args.file1)
       THEN /\ ret' = 0
            /\ pc' = "mf_ret"
            /\ UNCHANGED <<fh, which, entries>>
       ELSE /\ fh' = [path |-> args.file1, mode |-> "r", pos |-> 1]
            /\ which' = 1
            /\ entries' = <<>>
            /\ pc' = "rh_loop"
            /\ UNCHANGED ret
    /\ UNCHANGED <<fs, top, args, hist1, hist2, i_a, i_b, dirs, todo, status, fs0,
                   h_parsed, h_missing, h_io, h_out, h_drop, h_calls>>

\* lines 329-339: hist1 = read_hist(...); freopen(file2, "r", file_fh)
MF_AfterRead1 ==
    /\ pc = "rh_ret" /\ which = 1 /\ top # "read_hist"
    /\ IF ReturnsNULL(entries) \/ ~CanOpenRead(fs, args.file2)
       THEN /\ ret' = 0
            /\ pc' = "mf_ret"
            /\ fh' = Closed
            /\ UNCHANGED <<which, entries, hist1>>
       ELSE /\ hist1' = entries
            /\ fh' = [path |-> args.file2, mode |-> "r", pos |-> 1]
            /\ which' = 2
            /\ entries' = <<>>
            /\ pc' = "rh_loop"
            /\ UNCHANGED ret
    /\ UNCHANGED <<fs, top, args, hist2, i_a, i_b, dirs, todo, status, fs0,
                   h_parsed, h_missing, h_io, h_out, h_drop, h_calls>>

\* lines 340-354: hist2 = read_hist(...); freopen(fileO, "w", file_fh);
\* merge_entries starts with i_a = i_b = 0
MF_AfterRead2 ==
    /\ pc = "rh_ret" /\ which = 2
    /\ IF ReturnsNULL(entries)
       THEN /\ ret' = 0
            /\ pc' = "mf_ret"
            /\ fh' = Closed
            /\ UNCHANGED <<fs, hist2, i_a, i_b, h_io>>
       ELSE /\ hist2' = entries
            /\ fs' = OpenWrite(fs, args.fileO)
            /\ fh' = [path |-> args.fileO, mode |-> "w", pos |-> 1]
            /\ h_io' = Append(h_io, IoEvent("trunc", args.fileO))
            /\ i_a' = 0
            /\ i_b' = 0
            /\ pc' = "me_loop"
            /\ UNCHANGED ret
    /\ UNCHANGED <<top, args, which, entries, hist1, dirs, todo, status, fs0,
                   h_parsed, h_missing, h_out, h_drop, h_calls>>

\* lines 355-358: free, fclose, return 1
MF_Close ==
    /\ pc = "me_ret" /\ top # "merge_entries"
    /\ fh' = Closed
    /\ ret' = 1
    /\ pc' = "mf_ret"
    /\ UNCHANGED <<fs, top, args, which, entries, hist1, hist2, i_a, i_b, dirs,
                   todo, status, fs0, h_parsed, h_missing, h_io, h_out, h_drop,
                   h_calls>>

(***************************************************************************)
(* copy: nothing is done when source and dest are the same file (paths are *)
(* the only names of a file here, so the same inode is the same path)      *)
(***************************************************************************)
copy(f, source, dest) ==
    IF ~Exists(f, source)
    THEN [fs |-> f, ret |-> 0]
    ELSE IF Exists(f, dest) /\ source = dest
    THEN [fs |-> f, ret |-> 1]
    ELSE IF ~CanOpenRead(f, source)
    THEN [fs |-> f, ret |-> 0]
    ELSE [fs |-> [OpenWrite(f, dest) EXCEPT ![dest].lines = f[source].lines],
          ret |-> 1]

(***************************************************************************)
(* merge_dirs                                                              *)
(***************************************************************************)
\* what readdir returns for a directory: "." (a directory; it stands for
\* "..", and for sub-directories, too) and one entry per file or link
Listing(f, d) ==
    { [name |-> n, isdir |-> FALSE] : n \in { m \in Names : f[<<d, m>>].kind # "none" } }
    \cup { [name |-> ".", isdir |-> TRUE] }

\* status = r for status &= r
StatusOverwrite(s, r) == r

\* status &= r, on the values 0 and 1
StatusAnd(s, r) == IF s = 1 /\ r = 1 THEN 1 ELSE 0

Call(pass, name, op, r) == [pass |-> pass, name |-> name, op |-> op, ret |-> r]

\* lines 420-428: opendir(dir1)
MD_OpenDir ==
    /\ pc = "md_open"
    /\ status' = 1
    /\ todo' = Listing(fs, dirs.dir1)
    /\ pc' = "md_pass1"
    /\ UNCHANGED <<fs, top, args, fh, which, entries, hist1, hist2, i_a, i_b, ret,
                   dirs, fs0, h_parsed, h_missing, h_io, h_out, h_drop, h_calls>>

\* lines 430-435: a directory entry is skipped
MD_Pass1Skip ==
    /\ pc = "md_pass1"
    /\ \E e \in todo :
          /\ e.isdir
          /\ todo' = todo \ {e}
    /\ UNCHANGED <<fs, top, pc, args, fh, which, entries, hist1, hist2, i_a, i_b,
                   ret, dirs, status, fs0, h_parsed, h_missing, h_io, h_out,
                   h_drop, h_calls>>

\* lines 437-453: the name exists in dir2: merge_files is called
MD_Pass1Merge ==
    /\ pc = "md_pass1"
    /\ \E e \in todo :
          /\ ~e.isdir
          /\ Exists(fs, <<dirs.dir2, e.name>>)
          /\ todo' = todo \ {e}
          /\ args' = [file1 |-> <<dirs.dir1, e.name>>,
                      file2 |-> <<dirs.dir2, e.name>>,
                      fileO |-> <<dirs.dirO, e.name>>]
    /\ ret' = -1
    /\ pc' = "mf_open1"
    /\ UNCHANGED <<fs, top, fh, which, entries, hist1, hist2, i_a, i_b, dirs,
                   status, fs0, h_parsed, h_missing, h_io, h_out, h_drop, h_calls>>

\* lines 453, 459-461: status &= merge_files(...); the locals of the call
\* are gone
MD_MergeReturn ==
    /\ pc = "mf_ret" /\ top = "merge_dirs"
    /\ status' = StatusAnd(status, ret)
    /\ h_calls' = h_calls \cup {Call(1, args.file1[2], "merge", ret)}
    /\ pc' = "md_pass1"
    /\ args' = NoArgs /\ fh' = Closed /\ which' = 0 /\ entries' = <<>>
    /\ hist1' = <<>> /\ hist2' = <<>> /\ i_a' = 0 /\ i_b' = 0 /\ ret' = -1
    /\ h_parsed' = <<>> /\ h_missing' = {} /\ h_io' = <<>> /\ h_out' = <<>>
    /\ h_drop' = {}
    /\ UNCHANGED <<fs, top, dirs, todo, fs0>>

\* lines 437-451, 455-461: the name does not exist in dir2: copy
MD_Pass1Copy ==
    /\ pc = "md_pass1"
    /\ \E e \in todo :
          /\ ~e.isdir
          /\ ~Exists(fs, <<dirs.dir2, e.name>>)
          /\ todo' = todo \ {e}
          /\ LET r == copy(fs, <<dirs.dir1, e.name>>, <<dirs.dirO, e.name>>)
             IN  /\ fs' = r.fs
                 /\ status' = StatusAnd(status, r.ret)
                 /\ h_calls' = h_calls \cup {Call(1, e.name, "copy", r.ret)}
    /\ UNCHANGED <<top, pc, args, fh, which, entries, hist1, hist2, i_a, i_b, ret,
                   dirs, fs0, h_parsed, h_missing, h_io, h_out, h_drop>>

\* lines 463-470: closedir; opendir(dir1) again
MD_Pass1End ==
    /\ pc = "md_pass1"
    /\ todo = {}
    /\ todo' = Listing(fs, dirs.dir1)
    /\ pc' = "md_pass2"
    /\ UNCHANGED <<fs, top, args, fh, which, entries, hist1, hist2, i_a, i_b, ret,
                   dirs, status, fs0, h_parsed, h_missing, h_io, h_out, h_drop,
                   h_calls>>

\* lines 472-501: an entry of dir1 again; dir2's file is copied when
\* access(file1_path) fails
MD_Pass2Entry ==
    /\ pc = "md_pass2"
    /\ \E e \in todo :
          /\ todo' = todo \ {e}
          /\ IF ~e.isdir /\ ~Exists(fs, <<dirs.dir1, e.name>>)
             THEN LET r == copy(fs, <<dirs.dir2, e.name>>, <<dirs.dirO, e.name>>)
                  IN  /\ fs' = r.fs
                      /\ status' = StatusAnd(status, r.ret)
                      /\ h_calls' = h_calls \cup {Call(2, e.name, "copy", r.ret)}
             ELSE UNCHANGED <<fs, status, h_calls>>
    /\ UNCHANGED <<top, pc, args, fh, which, entries, hist1, hist2, i_a, i_b, ret,
                   dirs, fs0, h_parsed, h_missing, h_io, h_out, h_drop>>

\* lines 502-504: closedir; return status
MD_Return ==
    /\ pc = "md_pass2"
    /\ todo = {}
    /\ pc' = "md_ret"
    /\ UNCHANGED <<fs, top, args, fh, which, entries, hist1, hist2, i_a, i_b, ret,
                   dirs, todo, status, fs0, h_parsed, h_missing, h_io, h_out,
                   h_drop, h_calls>>

(***************************************************************************)
(* Specifications                                                          *)
(***************************************************************************)
TheName == "shared.log"

\* read_hist on one stream
LoadStreams ==
    UNION { {FileOf(es)} \cup CutFiles(es) : es \in SeqsUpTo(EntryUniverse, MaxLoadLen) }

InitLoad ==
    /\ top = "read_hist"
    /\ pc = "rh_loop"
    /\ \E s \in LoadStreams :
          fs = [p \in Paths |-> IF p = <<"A", TheName>> THEN File(s) ELSE NoFile]
    /\ fs0 = fs
    /\ fh = [path |-> <<"A", TheName>>, mode |-> "r", pos |-> 1]
    /\ Idle

NextLoad == RH_ReadEntry \/ RH_Return

SpecLoad == InitLoad /\ [][NextLoad]_vars

\* merge_entries on two sorted arrays, writing to an open stream
SortedSeqs == { es \in SeqsUpTo(EntryUniverse, MaxMergeLen) : IsSorted(es) }

InitMerge ==
    /\ top = "merge_entries"
    /\ pc = "me_loop"
    /\ fs = [p \in Paths |-> IF p = <<"O", TheName>> THEN File(<<>>) ELSE NoFile]
    /\ fs0 = fs
    /\ fh = [path |-> <<"O", TheName>>, mode |-> "w", pos |-> 1]
    /\ args = NoArgs /\ which = 0 /\ entries = <<>>
    /\ hist1 \in SortedSeqs /\ hist2 \in SortedSeqs
    /\ i_a = 0 /\ i_b = 0 /\ ret = -1
    /\ dirs = NoDirs /\ todo = {} /\ status = 1
    /\ h_parsed = <<>> /\ h_missing = {} /\ h_io = <<>> /\ h_out = <<>>
    /\ h_drop = {} /\ h_calls = {}

NextMerge == ME_Loop \/ ME_RestA \/ ME_RestB \/ ME_Return

SpecMerge == InitMerge /\ [][NextMerge]_vars

\* merge_files as main calls it: file1 and file2 exist; the output is file1
\* (in place), file2, or a third path that may exist already
FileStreams ==
    UNION { {FileOf(es)} \cup CutFiles(es) : es \in SeqsUpTo(FileUniverse, MaxFileLen) }

FileStates == { File(s) : s \in FileStreams } \cup { Unreadable(<<>>) }

OldOutput == File(FileOf(<<Entry("MS", 2, "000", <<"y">>)>>))

InitFiles ==
    /\ top = "merge_files"
    /\ pc = "mf_open1"
    /\ \E f1 \in FileStates, f2 \in FileStates, fO \in {NoFile, OldOutput} :
          fs = [p \in Paths |-> IF p = <<"A", TheName>> THEN f1
                                ELSE IF p = <<"B", TheName>> THEN f2
                                ELSE IF p = <<"O", TheName>> THEN fO
                                ELSE NoFile]
    /\ fs0 = fs
    /\ fh = Closed
    /\ \E d \in Dirs :
          args = [file1 |-> <<"A", TheName>>, file2 |-> <<"B", TheName>>,
                  fileO |-> <<d, TheName>>]
    /\ which = 0 /\ entries = <<>>
    /\ hist1 = <<>> /\ hist2 = <<>> /\ i_a = 0 /\ i_b = 0 /\ ret = -1
    /\ dirs = NoDirs /\ todo = {} /\ status = 1
    /\ h_parsed = <<>> /\ h_missing = {} /\ h_io = <<>> /\ h_out = <<>>
    /\ h_drop = {} /\ h_calls = {}

NextFiles ==
    \/ MF_Open1 \/ RH_ReadEntry \/ RH_Return \/ MF_AfterRead1 \/ MF_AfterRead2
    \/ ME_Loop \/ ME_RestA \/ ME_RestB \/ ME_Return \/ MF_Close

SpecFiles == InitFiles /\ [][NextFiles]_vars

\* merge_dirs as main calls it: the output directory is dir1 (in place), dir2
\* or a third, empty directory
GoodA == File(FileOf(<<Entry("MR", 1, "000", <<"x">>), Entry("MR", 2, "000", <<"x">>)>>))
GoodB == File(FileOf(<<Entry("MR", 1, "000", <<"y">>)>>))
\* a file read_hist returns NULL for: its only record lacks a line
Corrupt == File(SubSeq(FileOf(<<Entry("MR", 1, "001", <<"x", "y">>)>>), 1, 1))

LateB == File(FileOf(<<Entry("MR", 2, "000", <<"y">>)>>))

InitDirs ==
    /\ top = "merge_dirs"
    /\ pc = "md_open"
    /\ \E fa \in [Names -> {NoFile, GoodA, Corrupt, Dangling}],
          fb \in [Names -> {NoFile, GoodB, LateB, Corrupt}] :
          fs = [p \in Paths |-> IF p[1] = "A" THEN fa[p[2]]
                                ELSE IF p[1] = "B" THEN fb[p[2]]
                                ELSE NoFile]
    /\ fs0 = fs
    /\ fh = Closed
    /\ \E d \in Dirs : dirs = [dir1 |-> "A", dir2 |-> "B", dirO |-> d]
    /\ args = NoArgs /\ which = 0 /\ entries = <<>>
    /\ hist1 = <<>> /\ hist2 = <<>> /\ i_a = 0 /\ i_b = 0 /\ ret = -1
    /\ todo = {} /\ status = 1
    /\ h_parsed = <<>> /\ h_missing = {} /\ h_io = <<>> /\ h_out = <<>>
    /\ h_drop = {} /\ h_calls = {}

NextDirs ==
    \/ MD_OpenDir \/ MD_Pass1Skip \/ MD_Pass1Merge \/ MD_MergeReturn
    \/ MD_Pass1Copy \/ MD_Pass1End \/ MD_Pass2Entry \/ MD_Return
    \/ MF_Open1 \/ RH_ReadEntry \/ RH_Return \/ MF_AfterRead1 \/ MF_AfterRead2
    \/ ME_Loop \/ ME_RestA \/ ME_RestB \/ ME_Return \/ MF_Close

SpecDirs == InitDirs /\ [][NextDirs]_vars

(***************************************************************************)
(* Properties                                                              *)
(***************************************************************************)
\* the entries merge_entries wrote, in the order it wrote them
Emitted ==
    [k \in 1..Len(h_out) |->
        IF h_out[k][1] = "a" THEN hist1[h_out[k][2]] ELSE hist2[h_out[k][2]]]

FromA(w) == w[1] = "a"
FromB(w) == w[1] = "b"

TimestampsIn(es) == { es[k].timestamp : k \in 1..Len(es) }

AtTimestamp(es, t) == SelectSeq(es, LAMBDA e : e.timestamp = t)

StrictlyIncreasing(es) ==
    \A k \in 1..(Len(es) - 1) : es[k].timestamp < es[k+1].timestamp

EveryEntryIn(as, bs) == \A k \in 1..Len(as) : \E j \in 1..Len(bs) : bs[j] = as[k]

MergeDone == top = "merge_entries" /\ pc = "me_ret"

\* C9: what read_hist returns is a permutation of the parsed records that is
\* non-decreasing in timestamp, and stable: the records of each timestamp
\* are in the order they were parsed in.
C9_StableSort ==
    pc = "rh_ret" =>
        /\ Len(entries) = Len(h_parsed)
        /\ IsSorted(entries)
        /\ \A t \in TimestampsIn(entries) \cup TimestampsIn(h_parsed) :
              AtTimestamp(entries, t) = AtTimestamp(h_parsed, t)

\* C9 witness: a load whose records were out of order and held two different
\* records of one timestamp
C9_Witness ==
    /\ pc = "rh_ret"
    /\ entries # h_parsed
    /\ \E j, k \in 1..Len(h_parsed) :
          /\ j < k
          /\ h_parsed[j].timestamp = h_parsed[k].timestamp
          /\ h_parsed[j] # h_parsed[k]

\* C3, as stated: when every record of A is also in B, merge_entries emits
\* exactly |A| records, equal to A.
C3_Original ==
    (MergeDone /\ EveryEntryIn(hist1, hist2)) =>
        (Len(h_out) = Len(hist1) /\ Emitted = hist1)

\* C3, amended: when moreover no two records of A, and no two of B, share a
\* timestamp, merge_entries skips exactly |A| records of B and emits exactly
\* |B| records, equal to B; the output is A when B holds nothing else.
C3_Amended ==
    (MergeDone /\ EveryEntryIn(hist1, hist2)
        /\ StrictlyIncreasing(hist1) /\ StrictlyIncreasing(hist2)) =>
        /\ Cardinality(h_drop) = Len(hist1)
        /\ Len(h_out) = Len(hist2)
        /\ Emitted = hist2
        /\ (Len(hist2) = Len(hist1) => Emitted = hist1)

\* C3 witness: A is within B, B holds more, and the merge is done
C3_Witness ==
    /\ MergeDone
    /\ EveryEntryIn(hist1, hist2)
    /\ StrictlyIncreasing(hist1) /\ StrictlyIncreasing(hist2)
    /\ Len(hist1) >= 1
    /\ Len(hist2) > Len(hist1)

\* C4: the output of merge_entries is sorted by timestamp; it holds every
\* record of A once, in A's order, and every record of B that was not
\* skipped once, in B's order; every skipped record of B equals a record of
\* A in type, timestamp, line count and lines; so the output has
\* |A| + |B| - skipped records, |A| + |B| when A and B share no record; and
\* the stream holds exactly these records as write_entry writes them.
C4_SortedInterleaving ==
    MergeDone =>
        /\ IsSorted(Emitted)
        /\ SelectSeq(h_out, FromA) = [k \in 1..Len(hist1) |-> <<"a", k>>]
        /\ LET bs == SelectSeq(h_out, FromB)
           IN  /\ \A k \in 1..(Len(bs) - 1) : bs[k][2] < bs[k+1][2]
               /\ { bs[k][2] : k \in 1..Len(bs) } = (1..Len(hist2)) \ h_drop
        /\ h_drop \subseteq 1..Len(hist2)
        /\ \A j \in h_drop : \E k \in 1..Len(hist1) : hist1[k] = hist2[j]
        /\ Len(h_out) = Len(hist1) + Len(hist2) - Cardinality(h_drop)
        /\ (~(\E k \in 1..Len(hist1), j \in 1..Len(hist2) : hist1[k] = hist2[j])
               => Len(h_out) = Len(hist1) + Len(hist2))
        /\ fs[fh.path].lines = FileOf(Emitted)

\* C4 witness: a merge that skipped a record of B, wrote another, and wrote
\* two records of A
C4_Witness ==
    /\ MergeDone
    /\ h_drop # {}
    /\ \E k \in 1..Len(h_out) : FromB(h_out[k])
    /\ Len(hist1) = 2

\* C5: merge_entries(A, A) emits exactly A, every record taken from the
\* first argument.
C5_Idempotent ==
    (MergeDone /\ hist1 = hist2) =>
        /\ Emitted = hist1
        /\ \A k \in 1..Len(h_out) : FromA(h_out[k])
        /\ fs[fh.path].lines = FileOf(hist1)

\* C5 witness: A merged with itself, A holding two different records of one
\* timestamp
C5_Witness ==
    /\ MergeDone
    /\ hist1 = hist2
    /\ Len(hist1) = 2
    /\ hist1[1].timestamp = hist1[2].timestamp
    /\ hist1[1] # hist1[2]

\* C5 witness of the other case named: A holding the same record twice
C5_WitnessRepeated ==
    /\ MergeDone
    /\ hist1 = hist2
    /\ Len(hist1) = 2
    /\ hist1[1] = hist1[2]

\* the current records of A and B have one timestamp and differ
TiePending ==
    /\ pc = "me_loop"
    /\ i_a < Len(hist1) /\ i_b < Len(hist2)
    /\ hist1[i_a + 1].timestamp = hist2[i_b + 1].timestamp
    /\ hist1[i_a + 1] # hist2[i_b + 1]

\* C6: on a tie merge_entries writes A's record and leaves B's record
\* current; and no record of B is written before a record of A of the same
\* timestamp.
C6_TieBreak ==
    /\ [][TiePending =>
            /\ h_out' = Append(h_out, <<"a", i_a + 1>>)
            /\ i_a' = i_a + 1
            /\ i_b' = i_b]_vars
    /\ [](\A p, q \in 1..Len(h_out) :
            (p < q /\ FromB(h_out[p]) /\ FromA(h_out[q]))
                => Emitted[p].timestamp # Emitted[q].timestamp)

\* C6 witness: a record of A was written, then a different record of B of
\* the same timestamp
C6_Witness ==
    /\ MergeDone
    /\ \E p, q \in 1..Len(h_out) :
          /\ p < q
          /\ FromA(h_out[p]) /\ FromB(h_out[q])
          /\ Emitted[p].timestamp = Emitted[q].timestamp
          /\ Emitted[p] # Emitted[q]

FilesDone == top = "merge_files" /\ pc = "mf_ret"

IsWrite(ev) == ev.op \in {"trunc", "write"}

\* C8: merge_files opens (and truncates) the output only after both inputs
\* were read and both loads returned non-NULL; nothing is read after the
\* first truncation or write; only the output file ever changes, and not
\* before it is opened; and when merge_files returns 0 no file has changed.
C8_ReadsBeforeWrite ==
    /\ \A p, q \in 1..Len(h_io) : (p < q /\ IsWrite(h_io[p])) => h_io[q].op # "read"
    /\ (\E p \in 1..Len(h_io) : IsWrite(h_io[p])) =>
          /\ pc \in {"me_loop", "me_ret", "mf_ret"}
          /\ which = 2
          /\ ~ReturnsNULL(hist1) /\ ~ReturnsNULL(hist2)
          /\ \E p \in 1..Len(h_io) : h_io[p] = IoEvent("read", args.file1)
          /\ \E p \in 1..Len(h_io) : h_io[p] = IoEvent("read", args.file2)
    /\ \A path \in Paths :
          fs[path] # fs0[path] =>
              /\ path = args.fileO
              /\ \E p \in 1..Len(h_io) : h_io[p] = IoEvent("trunc", path)
    /\ (pc = "mf_ret" /\ ret = 0) => fs = fs0

\* C8 witness: an in-place merge (the output is file1) that rewrote file1
C8_Witness ==
    /\ FilesDone
    /\ ret = 1
    /\ args.fileO = args.file1
    /\ fs[args.file1] # fs0[args.file1]
    /\ Len(hist1) = 2

\* C2, as stated: a load that met a truncated record returns NULL, whatever
\* was parsed before it, and merge_files then returns 0 and writes nothing.
C2_AllOrNothing ==
    /\ (pc = "rh_ret" /\ fh.path \in h_missing) => ReturnsNULL(entries)
    /\ (pc = "mf_ret" /\ h_missing # {}) => (ret = 0 /\ fs = fs0)

\* the entries of a valid, non-empty log
ValidLogs == { es \in SeqsUpTo(FileUniverse, MaxFileLen) : Len(es) > 0 }

\* C10, as stated: merge_files of a valid log A with a log of no records
\* returns 1 and writes exactly the sorted records of A.
C10_EmptyLogMerges ==
    \A es \in ValidLogs :
        (FilesDone /\ fs0[args.file1] = File(FileOf(es))
            /\ fs0[args.file2] = File(<<>>)) =>
            /\ ret = 1
            /\ fs[args.fileO] = File(FileOf(bubble_sort(es, Len(es))))

DirsDone == top = "merge_dirs" /\ pc = "md_ret"

\* C1, as stated: after merge_dirs every name that is in dirB and not in dirA
\* is in outDir, a copy of dirB's file.
C1_CopiesFromSecond ==
    DirsDone =>
        \A n \in Names :
            (fs0[<<dirs.dir2, n>>].kind = "file" /\ fs0[<<dirs.dir1, n>>].kind = "none")
                => /\ fs[<<dirs.dirO, n>>].kind = "file"
                   /\ fs[<<dirs.dirO, n>>].lines = fs0[<<dirs.dir2, n>>].lines

====
